---- MODULE Spec2Model ----
(***************************************************************************)
(* Model of the aldera package.  The main part is                          *)
(* aldera.sms.backends.async_aws.AsyncSmsBackend: the retrying,            *)
(* concurrency-bounded send_message coroutine; the coroutines 1..NumCalls  *)
(* are the calls of send_message, through one shared backend instance or   *)
(* through the instance send_async_message builds for each of them.  The   *)
(* other parts are the settings registry aldera.config, init_app of the    *)
(* Flask extensions, get_secret of aldera.secrets and the synchronous      *)
(* aldera.sms.backends.aws.SmsBackend.  Durations are in milliseconds      *)
(* (0.5 s = 500).  A string that the code inspects (an AWS error code, a   *)
(* configuration key) is a sequence of one-letter strings, a dict is a set *)
(* of <<key, value>> pairs.                                                *)
(***************************************************************************)
EXTENDS Integers, Sequences, FiniteSets, TLC

\* Number of send_message coroutines sharing the backend instance.
NumCalls == 3

Calls == 1..NumCalls

VARIABLES
    sem_value,       \* self._semaphore._value of each backend instance
    sem_waiters,     \* self._semaphore._waiters of each backend instance
    transport,       \* which transport double answers client.publish
    pc,              \* where each coroutine stands in send_message
    attempt,         \* local variable attempt
    last_exception,  \* local variable last_exception
    timer,           \* time left of the pending asyncio.sleep, in ms
    result,          \* what the coroutine returned or raised
    calls,           \* history: transport attempts started by the coroutine
    delays,          \* history: the durations passed to asyncio.sleep
    reply,           \* history: the response of the last successful publish
    thrown,          \* history: the exception of the last failed attempt
    klass,           \* history: the handler branch that took that exception
    sms,             \* the backend instance each call sends through
    config,          \* aldera.config._config, the settings registry
    app_config,      \* app.config of the Flask app, in the order of its keys
    extensions,      \* app.extensions of the Flask app
    bound,           \* what init_app of each extension came to
    environ,         \* os.environ
    vault,           \* the secrets AWS Secrets Manager holds, None: no reach
    secrets,         \* the attributes of the Secrets instance
    asked,           \* what get_secret came to, for each secret name
    sent,            \* what SmsBackend.send_message came to, for each call
    published        \* history: the publish calls of each of these calls

vars == <<sem_value, sem_waiters, transport, pc, attempt, last_exception, timer,
          result, calls, delays, reply, thrown, klass, sms, config,
          app_config, extensions, bound, environ, vault, secrets, asked,
          sent, published>>

\* The state of the asynchronous backend and of its callers
sending == <<sem_value, sem_waiters, transport, pc, attempt, last_exception,
             timer, result, calls, delays, reply, thrown, klass, sms>>

\* The state of the Flask app
flask == <<app_config, extensions, bound>>

\* The state of aldera.secrets and of what it reads
vaulting == <<environ, vault, secrets, asked>>

\* The state of the callers of the synchronous backend
syncing == <<sent, published>>

\* The state outside the asynchronous backend
plumbing == <<config, flask, vaulting, syncing>>

----------------------------------------------------------------------------
(* Strings and dicts *)

UpperCase ==
    <<"A","B","C","D","E","F","G","H","I","J","K","L","M",
      "N","O","P","Q","R","S","T","U","V","W","X","Y","Z">>

LowerCase ==
    <<"a","b","c","d","e","f","g","h","i","j","k","l","m",
      "n","o","p","q","r","s","t","u","v","w","x","y","z">>

\* str.lower() on one character
LowerChar(ch) ==
    IF \E i \in 1..26 : UpperCase[i] = ch
    THEN LowerCase[CHOOSE i \in 1..26 : UpperCase[i] = ch]
    ELSE ch

\* a comparison that forgets str.lower()
LowerForgotten(s) == s

\* str.lower()
Lower(s) == [i \in 1..Len(s) |-> LowerChar(s[i])]

\* token in s
Contains(s, token) ==
    \E i \in 0..(Len(s) - Len(token)) :
        SubSeq(s, i + 1, i + Len(token)) = token

\* d[key] = value, on a function
Put(f, key, value) ==
    [x \in DOMAIN f \cup {key} |-> IF x = key THEN value ELSE f[x]]

\* Python values that are stored in a dict of settings
PyStr(text) == [type |-> "str", repr |-> text, items |-> {}]

PyBool(b) ==
    [type |-> "bool", repr |-> IF b THEN "True" ELSE "False", items |-> {}]

PyInt(digits) == [type |-> "int", repr |-> digits, items |-> {}]

PyNone == [type |-> "NoneType", repr |-> "None", items |-> {}]

\* a dict whose values are strings
PyDict(items) == [type |-> "dict", repr |-> "", items |-> items]

\* A test that takes only True for set
IsTrue(value) == value.type = "bool" /\ value.repr = "True"

\* bool(value)
Truthy(value) ==
    CASE value.type = "NoneType" -> FALSE
      [] value.type = "bool" -> value.repr = "True"
      [] value.type = "int" -> value.repr # "0"
      [] value.type = "str" -> value.repr # ""
      [] value.type = "dict" -> value.items # {}
      [] OTHER -> TRUE

\* dict.get(key, default)
DictGet(d, key, default) ==
    IF \E p \in d : p[1] = key
    THEN (CHOOSE p \in d : p[1] = key)[2]
    ELSE default

----------------------------------------------------------------------------
(* AsyncSmsBackend.__init__ *)

max_retries == 3

\* self._backoff_base = 0.5 seconds
backoff_base == 500

backoff_factor == 2

\* asyncio.Semaphore(self._max_retries), a slip that sizes the gate wrongly
SemaphoreOfRetries == max_retries

\* asyncio.Semaphore(2)
SemaphoreCapacity == 2

----------------------------------------------------------------------------
(* Exceptions *)

\* The classes an exception is an instance of (its class and its bases).
Bases(type) ==
    CASE type = "ClientError" -> {"ClientError", "Exception"}
      [] type = "EndpointConnectionError" ->
             {"EndpointConnectionError", "ConnectionError",
              "HTTPClientError", "BotoCoreError", "Exception"}
      [] type = "TimeoutError" -> {"TimeoutError", "Exception"}
      [] type = "ParamValidationError" ->
             {"ParamValidationError", "BotoCoreError", "Exception"}
      [] type = "ValueError" -> {"ValueError", "Exception"}
      [] OTHER -> {type}

IsInstance(err, classes) == Bases(err.type) \cap classes # {}

\* last_exception = None
NoException == [type |-> "None", response |-> {}]

ClientError(response) == [type |-> "ClientError", response |-> response]

OtherError(type) == [type |-> type, response |-> {}]

\* A ClientError response carrying the error code
ErrorResponse(code) == {<<"Error", {<<"Code", code>>}>>}

----------------------------------------------------------------------------
(* The except clauses of send_message *)

RetriableTokens ==
    { <<"t","h","r","o","t","t","l","i","n","g">>,
      <<"r","e","q","u","e","s","t","l","i","m","i","t">>,
      <<"i","n","t","e","r","n","a","l">>,
      <<"s","e","r","v","i","c","e">>,
      <<"u","n","a","v","a","i","l","a","b","l","e">> }

\* getattr(err, 'response', {}).get('Error', {}).get('Code', '')
ErrorCode(err) == DictGet(DictGet(err.response, "Error", {}), "Code", <<>>)

\* any(token in str(code).lower() for token in (...))
Retriable(code) == \E token \in RetriableTokens : Contains(Lower(code), token)

\* The first except clause that matches the exception.
ExceptClause(err) ==
    IF IsInstance(err, {"ClientError"}) THEN "ClientError"
    ELSE IF IsInstance(err, {"EndpointConnectionError", "TimeoutError"})
    THEN "Network"
    ELSE "Exception"

\* self._backoff_base * (self._backoff_factor ** (attempt - 1))
RECURSIVE Power(_, _)
Power(b, e) == IF e = 0 THEN 1 ELSE b * Power(b, e - 1)

\* self._backoff_base * (self._backoff_factor ** attempt), a slip
BackoffByAttempt(n) == backoff_base * Power(backoff_factor, n)

Backoff(n) == backoff_base * Power(backoff_factor, n - 1)

----------------------------------------------------------------------------
(* The transport: what client.publish can answer *)

\* Error codes are built as prefix + stem + suffix.
CodePrefixes ==
    { <<>>,
      <<"K","M","S">>,
      <<"U","n">> }

\* Stems that hold a token in some case, near misses, unrelated codes
CodeStems ==
    { <<"T","h","r","o","t","t","l","i","n","g">>,
      <<"T","H","R","O","T","T","L","I","N","G">>,
      <<"t","h","r","o","t","t","l","i","n","g">>,
      <<"R","e","q","u","e","s","t","L","i","m","i","t">>,
      <<"r","e","q","u","e","s","t","l","i","m","i","t">>,
      <<"I","n","t","e","r","n","a","l">>,
      <<"I","N","T","E","R","N","A","L">>,
      <<"S","e","r","v","i","c","e">>,
      <<"U","n","a","v","a","i","l","a","b","l","e">>,
      <<"U","N","A","V","A","I","L","A","B","L","E">>,
      <<>>,
      <<"A","c","c","e","s","s","D","e","n","i","e","d">>,
      <<"I","n","v","a","l","i","d","P","a","r","a","m","e","t","e","r">>,
      <<"O","p","t","e","d","O","u","t">>,
      <<"T","h","r","o","t","t","l","e","d">>,
      <<"T","h","r","o","t","t","l">>,
      <<"R","e","q","u","e","s","t","L","i","m","i">>,
      <<"I","n","t","e","r","n">>,
      <<"S","e","r","v","i","c">>,
      <<"A","v","a","i","l","a","b","l","e">>,
      <<"L","i","m","i","t">>,
      <<"S","e","r","v","e","r","B","u","s","y">> }

\* Suffixes; "ing" completes the stem "Throttl"
CodeSuffixes ==
    { <<>>,
      <<"E","x","c","e","p","t","i","o","n">>,
      <<"i","n","g">>,
      <<"E","x","c","e","e","d","e","d">> }

Codes == {p \o m \o s : p \in CodePrefixes, m \in CodeStems, s \in CodeSuffixes}

Throttling == <<"T","h","r","o","t","t","l","i","n","g">>

InvalidParameter ==
    <<"I","n","v","a","l","i","d","P","a","r","a","m","e","t","e","r">>

\* The value Python's None when it is a message id
NoMessageId == "None"

\* publish responses: with a MessageId, and without one
Responses(kind) ==
    IF kind = "plain" THEN { {<<"MessageId", "m-1">>} }
    ELSE { {<<"MessageId", "m-1">>}, {<<"MessageId", "m-2">>}, {} }

\* The exceptions of the plain transport: one for each except clause
PlainFaults ==
    { ClientError(ErrorResponse(Throttling)),
      OtherError("EndpointConnectionError"),
      OtherError("ValueError") }

\* The exceptions of the rich transport: a ClientError for every code, one
\* without a code, one without an Error entry, and the other classes
RichFaults ==
    PlainFaults
    \cup {ClientError(ErrorResponse(code)) : code \in Codes}
    \cup { ClientError({<<"Error", {}>>}), ClientError({}) }
    \cup { OtherError("TimeoutError"), OtherError("ParamValidationError") }

Faults(kind) == IF kind = "plain" THEN PlainFaults ELSE RichFaults

\* retriable, for each ClientError the transport can raise
Transient ==
    [err \in {e \in RichFaults : e.type = "ClientError"} |->
        Retriable(ErrorCode(err))]

----------------------------------------------------------------------------
(* asyncio.Semaphore *)

\* Semaphore.locked()
Locked(value, waiters) == value = 0 \/ waiters # <<>>

\* Semaphore.release(): one more free slot
Release(value) == value + 1

\* The coroutines that are inside the 'async with self._semaphore' block
Holders == {c \in Calls : pc[c] \in {"publish", "sleep"}}

\* The backend instance the callers construct and pass as connection
SharedBackend == NumCalls + 1

----------------------------------------------------------------------------
(* aldera.config and aldera.sms *)

\* connection=None
NoConnection == 0

\* 'SMS_BACKEND'
SMS_BACKEND == <<"S","M","S","_","B","A","C","K","E","N","D">>

\* aldera.config.get(key, default)
get_config(key, default) == DictGet(config, key, default)

DEFAULT_BACKEND == "locmem"

\* aldera.sms.backends.backend_classes
backend_classes ==
    { <<"async_aws", "async_aws.AsyncSmsBackend">>,
      <<"aws", "aws.SmsBackend">>,
      <<"locmem", "locmem.SmsBackend">> }

\* get_connection(): klass(**kwargs) builds a new instance for the call;
\* the instance built for call c is numbered c
get_connection(c) == c

\* The class get_connection() instantiates
connection_class ==
    DictGet(backend_classes,
            get_config(SMS_BACKEND, PyStr(DEFAULT_BACKEND)).repr, "None")

----------------------------------------------------------------------------
(* send_message *)

\* return True, as the synchronous backend does
ReturnTrue(message_id) ==
    [kind |-> "return", exc |-> "", value |-> "True",
     cause |-> NoException]

Return(message_id) ==
    [kind |-> "return", exc |-> "", value |-> message_id,
     cause |-> NoException]

\* raise SmsSendError(...), a slip that drops the cause
RaiseBare(cause) ==
    [kind |-> "raise", exc |-> "SmsSendError", value |-> NoMessageId,
     cause |-> NoException]

\* raise last_exception, a slip that lets the transport's error through
RaiseCause(cause) ==
    [kind |-> "raise", exc |-> cause.type, value |-> NoMessageId,
     cause |-> cause]

\* raise SmsSendError(...) from last_exception
Raise(cause) ==
    [kind |-> "raise", exc |-> "SmsSendError", value |-> NoMessageId,
     cause |-> cause]

Pending ==
    [kind |-> "pending", exc |-> "", value |-> NoMessageId,
     cause |-> NoException]

\* attempt >= self._max_retries, a slip that gives up one attempt early
ExhaustedEarly(n) == n >= max_retries

\* attempt > self._max_retries
Exhausted(n) == n > max_retries

\* attempt = 1, a slip for attempt += 1
BumpStuck(n) == 1

\* attempt += 1
Bump(n) == n + 1

\* if attempt > self._max_retries: break, a slip that retries fatal errors
ClientErrorBreaksLate(n, retriable) == Exhausted(n)

\* if attempt > self._max_retries or not retriable: break
ClientErrorBreaks(n, retriable) == Exhausted(n) \/ ~retriable

\* if attempt > self._max_retries: break
NetworkErrorBreaks(n) == Exhausted(n)

\* A break that leaves without giving the slot back
BreakKeepsSlot(c, g, value, cause) ==
    /\ sem_value' = Put(sem_value, g, value)
    /\ result' = [result EXCEPT ![c] = Raise(cause)]
    /\ pc' = [pc EXCEPT ![c] = "raised"]

\* Leaving the 'async with' block by break: the slot is released and
\* SmsSendError is raised from last_exception.
Break(c, g, value, cause) ==
    /\ sem_value' = Put(sem_value, g, Release(value))
    /\ result' = [result EXCEPT ![c] = Raise(cause)]
    /\ pc' = [pc EXCEPT ![c] = "raised"]

\* while attempt <= self._max_retries: the try block opens a client and
\* awaits client.publish; n is attempt, value the value of semaphore g.
Loop(c, g, n, value) ==
    IF n <= max_retries
    THEN /\ pc' = [pc EXCEPT ![c] = "publish"]
         /\ calls' = [calls EXCEPT ![c] = @ + 1]
         /\ sem_value' = Put(sem_value, g, value)
         /\ UNCHANGED result
    ELSE /\ Break(c, g, value, last_exception[c])
         /\ UNCHANGED calls

\* A backoff that gives the slot back while it sleeps
SleepReleases(c, n) ==
    /\ timer' = [timer EXCEPT ![c] = Backoff(n)]
    /\ delays' = [delays EXCEPT ![c] = Append(@, Backoff(n))]
    /\ pc' = [pc EXCEPT ![c] = "sleep"]
    /\ sem_value' = [sem_value EXCEPT ![sms[c]] = Release(@)]
    /\ UNCHANGED result

\* await asyncio.sleep(backoff), before continue
Sleep(c, n) ==
    /\ timer' = [timer EXCEPT ![c] = Backoff(n)]
    /\ delays' = [delays EXCEPT ![c] = Append(@, Backoff(n))]
    /\ pc' = [pc EXCEPT ![c] = "sleep"]
    /\ UNCHANGED <<sem_value, result>>

\* send_async_message is called: sms = connection or get_connection(),
\* then sms.send_message: the locals are set and the semaphore is acquired
\* at once when it is not locked, else the coroutine queues up.  A backend
\* that get_connection builds comes with its own unlocked semaphore.
Call(c) ==
    /\ pc[c] = "start"
    /\ sms[c] = NoConnection => connection_class = "async_aws.AsyncSmsBackend"
    /\ LET g == IF sms[c] = NoConnection THEN get_connection(c) ELSE sms[c]
           built == g \in DOMAIN sem_value
           value == IF built THEN sem_value[g] ELSE SemaphoreCapacity
           waiters == IF built THEN sem_waiters[g] ELSE <<>>
       IN  /\ sms' = [sms EXCEPT ![c] = g]
           /\ IF ~Locked(value, waiters)
              THEN /\ Loop(c, g, 0, value - 1)
                   /\ sem_waiters' = Put(sem_waiters, g, waiters)
              ELSE /\ sem_waiters' = Put(sem_waiters, g, Append(waiters, c))
                   /\ pc' = [pc EXCEPT ![c] = "waiting"]
                   /\ UNCHANGED <<sem_value, calls, result>>
    /\ attempt' = [attempt EXCEPT ![c] = 0]
    /\ last_exception' = [last_exception EXCEPT ![c] = NoException]
    /\ UNCHANGED <<transport, timer, delays, reply, thrown, klass>>
    /\ UNCHANGED plumbing

\* The first waiter is woken when a slot is free, takes it and enters
\* the loop.
Acquire(c) ==
    /\ pc[c] = "waiting"
    /\ sem_waiters[sms[c]] # <<>>
    /\ Head(sem_waiters[sms[c]]) = c
    /\ sem_value[sms[c]] > 0
    /\ sem_waiters' = [sem_waiters EXCEPT ![sms[c]] = Tail(@)]
    /\ Loop(c, sms[c], attempt[c], sem_value[sms[c]] - 1)
    /\ UNCHANGED <<transport, attempt, last_exception, timer, delays, reply,
                   thrown, klass, sms>>
    /\ UNCHANGED plumbing

\* publish answers: return response.get('MessageId'), leaving the block
PublishOk(c) ==
    /\ pc[c] = "publish"
    /\ \E response \in Responses(transport) :
         /\ reply' = [reply EXCEPT ![c] = response]
         /\ result' = [result EXCEPT ![c] =
                          Return(DictGet(response, "MessageId", NoMessageId))]
    /\ sem_value' = [sem_value EXCEPT ![sms[c]] = Release(@)]
    /\ pc' = [pc EXCEPT ![c] = "returned"]
    /\ UNCHANGED <<sem_waiters, transport, attempt, last_exception, timer,
                   calls, delays, thrown, klass, sms>>
    /\ UNCHANGED plumbing

\* except botocore.exceptions.ClientError as err
OnClientError(c) ==
    /\ pc[c] = "publish"
    /\ \E err \in Faults(transport) :
         /\ ExceptClause(err) = "ClientError"
         /\ LET retriable == Transient[err]
                n == Bump(attempt[c])
            IN  /\ thrown' = [thrown EXCEPT ![c] = err]
                /\ klass' = [klass EXCEPT ![c] =
                       IF retriable THEN "RetriableRemote" ELSE "Fatal"]
                /\ last_exception' = [last_exception EXCEPT ![c] = err]
                /\ attempt' = [attempt EXCEPT ![c] = n]
                /\ IF ClientErrorBreaks(n, retriable)
                   THEN /\ Break(c, sms[c], sem_value[sms[c]], last_exception'[c])
                        /\ UNCHANGED <<timer, delays>>
                   ELSE Sleep(c, n)
    /\ UNCHANGED <<sem_waiters, transport, calls, reply, sms>>
    /\ UNCHANGED plumbing

\* except (EndpointConnectionError, asyncio.TimeoutError) as exc
OnNetworkError(c) ==
    /\ pc[c] = "publish"
    /\ \E exc \in Faults(transport) :
         /\ ExceptClause(exc) = "Network"
         /\ LET n == Bump(attempt[c])
            IN  /\ thrown' = [thrown EXCEPT ![c] = exc]
                /\ klass' = [klass EXCEPT ![c] = "RetriableNetwork"]
                /\ last_exception' = [last_exception EXCEPT ![c] = exc]
                /\ attempt' = [attempt EXCEPT ![c] = n]
                /\ IF NetworkErrorBreaks(n)
                   THEN /\ Break(c, sms[c], sem_value[sms[c]], last_exception'[c])
                        /\ UNCHANGED <<timer, delays>>
                   ELSE Sleep(c, n)
    /\ UNCHANGED <<sem_waiters, transport, calls, reply, sms>>
    /\ UNCHANGED plumbing

\* except Exception as exc
OnException(c) ==
    /\ pc[c] = "publish"
    /\ \E exc \in Faults(transport) :
         /\ ExceptClause(exc) = "Exception"
         /\ thrown' = [thrown EXCEPT ![c] = exc]
         /\ klass' = [klass EXCEPT ![c] = "Fatal"]
         /\ last_exception' = [last_exception EXCEPT ![c] = exc]
         /\ Break(c, sms[c], sem_value[sms[c]], last_exception'[c])
    /\ UNCHANGED <<sem_waiters, transport, attempt, timer, calls, delays,
                   reply, sms>>
    /\ UNCHANGED plumbing

\* Time passes for a coroutine suspended in asyncio.sleep.
Tick(c) ==
    /\ pc[c] = "sleep"
    /\ timer[c] > 0
    /\ timer' = [timer EXCEPT ![c] = @ - backoff_base]
    /\ UNCHANGED <<sem_value, sem_waiters, transport, pc, attempt,
                   last_exception, result, calls, delays, reply, thrown,
                   klass, sms>>
    /\ UNCHANGED plumbing

\* asyncio.sleep is over: continue with the next turn of the loop
Wake(c) ==
    /\ pc[c] = "sleep"
    /\ timer[c] = 0
    /\ Loop(c, sms[c], attempt[c], sem_value[sms[c]])
    /\ UNCHANGED <<sem_waiters, transport, attempt, last_exception, timer,
                   delays, reply, thrown, klass, sms>>
    /\ UNCHANGED plumbing

\* The sequence without its element c
Without(seq, c) == SelectSeq(seq, LAMBDA x : x # c)

\* What a cancelled coroutine raises: asyncio.CancelledError, which no
\* except clause of send_message takes
Cancelled ==
    [kind |-> "raise", exc |-> "CancelledError", value |-> NoMessageId,
     cause |-> NoException]

\* A cancellation that leaves the 'async with' block with the slot kept
UnwindKeepsSlot(value) == value

\* CancelledError leaves the 'async with' block: the slot is released
Unwind(value) == Release(value)

\* The task is cancelled while it waits for a slot: the acquire is given
\* up, the block was never entered and nothing is released.
CancelWaiting(c) ==
    /\ pc[c] = "waiting"
    /\ sem_waiters' = [sem_waiters EXCEPT ![sms[c]] = Without(@, c)]
    /\ pc' = [pc EXCEPT ![c] = "cancelled"]
    /\ result' = [result EXCEPT ![c] = Cancelled]
    /\ UNCHANGED <<sem_value, transport, attempt, last_exception, timer,
                   calls, delays, reply, thrown, klass, sms>>
    /\ UNCHANGED plumbing

\* The task is cancelled in asyncio.sleep: CancelledError is raised inside
\* the except clause and leaves the 'async with' block.
CancelSleeping(c) ==
    /\ pc[c] = "sleep"
    /\ sem_value' = [sem_value EXCEPT ![sms[c]] = Unwind(@)]
    /\ timer' = [timer EXCEPT ![c] = 0]
    /\ pc' = [pc EXCEPT ![c] = "cancelled"]
    /\ result' = [result EXCEPT ![c] = Cancelled]
    /\ UNCHANGED <<sem_waiters, transport, attempt, last_exception, calls,
                   delays, reply, thrown, klass, sms>>
    /\ UNCHANGED plumbing

\* The task is cancelled in client.publish: CancelledError is not an
\* Exception, passes the except clauses and leaves the 'async with' block.
CancelPublishing(c) ==
    /\ pc[c] = "publish"
    /\ sem_value' = [sem_value EXCEPT ![sms[c]] = Unwind(@)]
    /\ pc' = [pc EXCEPT ![c] = "cancelled"]
    /\ result' = [result EXCEPT ![c] = Cancelled]
    /\ UNCHANGED <<sem_waiters, transport, attempt, last_exception, timer,
                   calls, delays, reply, thrown, klass, sms>>
    /\ UNCHANGED plumbing

----------------------------------------------------------------------------
(* aldera.flask_ext, aldera.sms.flask_sms, aldera.mail.flask_mail *)

\* str.startswith(prefix)
StartsWith(s, prefix) ==
    /\ Len(s) >= Len(prefix)
    /\ SubSeq(s, 1, Len(prefix)) = prefix

\* str.replace(old, new): every occurrence, leftmost first
RECURSIVE Replace(_, _, _)
Replace(s, old, new) ==
    IF s = <<>>
    THEN <<>>
    ELSE IF StartsWith(s, old)
         THEN new \o Replace(SubSeq(s, Len(old) + 1, Len(s)), old, new)
         ELSE <<Head(s)>> \o Replace(Tail(s), old, new)

\* 'ALDERA_'
ALDERA_ == <<"A","L","D","E","R","A","_">>

\* 'AWS_REGION'
AWS_REGION == <<"A","W","S","_","R","E","G","I","O","N">>

\* 'DEBUG'
DEBUG == <<"D","E","B","U","G">>

\* 'SECRET_KEY'
SECRET_KEY == <<"S","E","C","R","E","T","_","K","E","Y">>

\* The name of the parameter of aldera.config.load_dict
dict_items == <<"d","i","c","t","_","i","t","e","m","s">>

\* The keys of a dict
Keys(d) == {p[1] : p \in d}

\* dict.update(items)
DictUpdate(d, items) == {p \in d : p[1] \notin Keys(items)} \cup items

\* {key.replace('ALDERA_', ''): app.config[key] for key in app.config
\*  if key.startswith('ALDERA_')}: the keys are taken in the order of
\* app.config, a later one replaces an equal earlier one
RECURSIVE aldera_keys(_)
aldera_keys(items) ==
    IF items = <<>>
    THEN {}
    ELSE LET last == items[Len(items)]
             before == aldera_keys(SubSeq(items, 1, Len(items) - 1))
         IN  IF StartsWith(last[1], ALDERA_)
             THEN DictUpdate(before,
                             {<<Replace(last[1], ALDERA_, <<>>), last[2]>>})
             ELSE before

\* What a call of init_app or of a function of aldera.config comes to
Returned == [kind |-> "return", exc |-> "None"]

Raised(exc) == [kind |-> "raise", exc |-> exc]

NotCalled == [kind |-> "pending", exc |-> "None"]

\* _config.update(dict_items): a dict is merged, the empty string is an
\* empty iterable, another string yields one-letter items, the rest cannot
\* be iterated
update(value) ==
    CASE value.type = "dict" -> Returned
      [] value.type = "str" /\ value.repr = "" -> Returned
      [] value.type = "str" /\ value.repr # "" -> Raised("ValueError")
      [] OTHER -> Raised("TypeError")

\* aldera.config.load_dict(**kwargs): load_dict has the one parameter
\* dict_items, so the call binds only when dict_items is the one keyword
load_dict(kwargs) ==
    IF Keys(kwargs) = {dict_items}
    THEN LET value == DictGet(kwargs, dict_items, PyNone)
         IN  [outcome |-> update(value),
              registry |-> IF update(value) = Returned
                           THEN DictUpdate(config, value.items)
                           ELSE config]
    ELSE [outcome |-> Raised("TypeError"), registry |-> config]

\* getattr(app.config, 'DEBUG', False): app.config is a dict, its keys are
\* no attributes
getattr_DEBUG == PyBool(FALSE)

\* The extension classes and the names they register under
Extensions ==
    { <<"aldera", "Aldera">>,
      <<"aldera_sms", "AlderaSMS">>,
      <<"aldera_email", "AlderaEmail">> }

\* init_app(self, app) of the extension registered as name
init_app(name) ==
    /\ bound[name] = NotCalled
    /\ LET loaded == load_dict(aldera_keys(app_config))
       IN  IF loaded.outcome = Returned
           THEN /\ config' = DictUpdate(loaded.registry,
                                        {<<DEBUG, getattr_DEBUG>>})
                /\ extensions' =
                     DictUpdate(extensions,
                                {<<name, DictGet(Extensions, name, "None")>>})
                /\ bound' = [bound EXCEPT ![name] = Returned]
           ELSE /\ config' = loaded.registry
                /\ bound' = [bound EXCEPT ![name] = loaded.outcome]
                /\ UNCHANGED extensions
    /\ UNCHANGED app_config
    /\ UNCHANGED <<sending, vaulting, syncing>>

\* No Flask app is around
NoFlask ==
    /\ app_config = <<>>
    /\ extensions = {}
    /\ bound = [name \in Keys(Extensions) |-> NotCalled]

----------------------------------------------------------------------------
(* aldera.secrets *)

\* A bound method of the Secrets instance
Method(name) == [type |-> "method", repr |-> name, items |-> {}]

\* The functions defined in the body of class Secrets
SecretsClass ==
    {"__init__", "_get_aws_secrets", "_get_systemd_secrets", "_settings"}

\* Secrets.__init__: the two attributes of the new instance
NewSecrets(env) ==
    { <<"_settings", PyNone>>,
      <<"_source", DictGet(env, "ALDERA_SECRETS_SOURCE", PyNone)>> }

\* What a call of get_secret comes to
Answered(value) == [kind |-> "return", exc |-> "None", value |-> value]

Failed(exc) == [kind |-> "raise", exc |-> exc, value |-> PyNone]

Unasked == [kind |-> "pending", exc |-> "None", value |-> PyNone]

\* secrets.<name>: the attribute of the instance comes before the function
\* of the class, which is no data descriptor
GetAttr(instance, name) ==
    IF name \in Keys(instance)
    THEN Answered(DictGet(instance, name, PyNone))
    ELSE IF name \in SecretsClass
         THEN Answered(Method(name))
         ELSE Failed("AttributeError")

\* value[key]
Subscript(value, key) ==
    IF value.type = "dict"
    THEN IF key \in Keys(value.items)
         THEN Answered(DictGet(value.items, key, PyNone))
         ELSE Failed("KeyError")
    ELSE Failed("TypeError")

\* get_secret(secret_name): return secrets._settings[secret_name]
get_secret(secret_name) ==
    /\ asked[secret_name] = Unasked
    /\ LET found == GetAttr(secrets, "_settings")
       IN  asked' = [asked EXCEPT ![secret_name] =
                        IF found.kind = "raise"
                        THEN found
                        ELSE Subscript(found.value, secret_name)]
    /\ UNCHANGED <<environ, vault, secrets>>
    /\ UNCHANGED <<sending, config, flask, syncing>>

\* The secrets the callers ask for
SecretNames == {"DB_USER", "DB_PASSWORD", "DB_HOST"}

\* The module is imported: secrets_wrapper() builds the Secrets instance
Imported(env, store) ==
    /\ environ = env
    /\ vault = store
    /\ secrets = NewSecrets(env)
    /\ asked = [name \in SecretNames |-> Unasked]

\* Nothing is known of the environment and of AWS Secrets Manager
NoSecrets == Imported({}, PyNone)

----------------------------------------------------------------------------
(* aldera.sms.backends.aws.SmsBackend *)

\* What a call of the synchronous send_message comes to; fault is what
\* client.publish raised in it
SyncReturn(b, fault) ==
    [kind |-> "return", value |-> PyBool(b), exc |-> NoException,
     fault |-> fault]

SyncRaise(exc, fault) ==
    [kind |-> "raise", value |-> PyNone, exc |-> exc, fault |-> fault]

Unsent ==
    [kind |-> "pending", value |-> PyNone, exc |-> NoException,
     fault |-> NoException]

\* The exceptions client.publish raises
SyncFaults ==
    PlainFaults
    \cup { ClientError(ErrorResponse(InvalidParameter)),
           OtherError("ParamValidationError") }

\* except botocore.exceptions.ClientError: raise when DEBUG is set
OnSyncClientError(error) ==
    IF Truthy(get_config(DEBUG, PyBool(FALSE)))
    THEN SyncRaise(error, error)
    ELSE SyncReturn(FALSE, error)

\* SmsBackend.send_message(message, recipient_number)
send_message(c) ==
    /\ sent[c] = Unsent
    /\ published' = [published EXCEPT ![c] = @ + 1]
    /\ \/ sent' = [sent EXCEPT ![c] = SyncReturn(TRUE, NoException)]
       \/ \E error \in SyncFaults :
             sent' = [sent EXCEPT ![c] =
                         IF IsInstance(error, {"ClientError"})
                         THEN OnSyncClientError(error)
                         ELSE SyncRaise(error, error)]
    /\ UNCHANGED <<sending, config, flask, vaulting>>

\* No call of the synchronous backend
NoSync ==
    /\ sent = [c \in Calls |-> Unsent]
    /\ published = [c \in Calls |-> 0]

----------------------------------------------------------------------------
(* NumCalls coroutines share one backend *)

\* The state before any call: connection is what the callers pass to
\* send_async_message, settings what the registry holds.
StartWith(kind, callers, connection, settings) ==
    /\ sem_value = [g \in {connection} \ {NoConnection} |->
                       SemaphoreCapacity]
    /\ sem_waiters = [g \in {connection} \ {NoConnection} |-> <<>>]
    /\ sms = [c \in Calls |-> connection]
    /\ config = settings
    /\ transport = kind
    /\ pc = [c \in Calls |-> IF c \in callers THEN "start" ELSE "absent"]
    /\ attempt = [c \in Calls |-> 0]
    /\ last_exception = [c \in Calls |-> NoException]
    /\ timer = [c \in Calls |-> 0]
    /\ result = [c \in Calls |-> Pending]
    /\ calls = [c \in Calls |-> 0]
    /\ delays = [c \in Calls |-> <<>>]
    /\ reply = [c \in Calls |-> {}]
    /\ thrown = [c \in Calls |-> NoException]
    /\ klass = [c \in Calls |-> "None"]

\* The callers share one AsyncSmsBackend that they built themselves.
Start(kind, callers) ==
    /\ StartWith(kind, callers, SharedBackend, {})
    /\ NoFlask
    /\ NoSecrets
    /\ NoSync

Init == Start("plain", Calls)

Next ==
    \E c \in Calls :
        \/ Call(c)
        \/ Acquire(c)
        \/ PublishOk(c)
        \/ OnClientError(c)
        \/ OnNetworkError(c)
        \/ OnException(c)
        \/ Tick(c)
        \/ Wake(c)

Spec == Init /\ [][Next]_vars

(* One coroutine alone, over the rich transport *)

InitSolo == Start("rich", {1})

NextSolo ==
    \E c \in Calls :
        \/ Call(c)
        \/ PublishOk(c)
        \/ OnClientError(c)
        \/ OnNetworkError(c)
        \/ OnException(c)
        \/ Tick(c)
        \/ Wake(c)

SpecSolo == InitSolo /\ [][NextSolo]_vars

(* The coroutines can be cancelled; the transport only loses connections *)

NextCancel ==
    \E c \in Calls :
        \/ Call(c)
        \/ Acquire(c)
        \/ PublishOk(c)
        \/ OnNetworkError(c)
        \/ Tick(c)
        \/ Wake(c)
        \/ CancelWaiting(c)
        \/ CancelSleeping(c)
        \/ CancelPublishing(c)

SpecCancel == Init /\ [][NextCancel]_vars

(* Every task is scheduled, every publish is answered, every sleep ends *)

NextFair ==
    \E c \in Calls :
        \/ Call(c)
        \/ Acquire(c)
        \/ PublishOk(c)
        \/ OnNetworkError(c)
        \/ OnException(c)
        \/ Tick(c)
        \/ Wake(c)

\* client.publish comes back, with a response or with an exception
Answer(c) == PublishOk(c) \/ OnNetworkError(c) \/ OnException(c)

Fairness ==
    \A c \in Calls :
        /\ WF_vars(Call(c))
        /\ WF_vars(Acquire(c))
        /\ WF_vars(Answer(c))
        /\ WF_vars(Tick(c))
        /\ WF_vars(Wake(c))

SpecFair == Init /\ [][NextFair]_vars /\ Fairness

(* The callers pass no connection: send_async_message builds the backend;
   the transport only loses connections *)

AsyncSettings == { <<SMS_BACKEND, PyStr("async_aws")>> }

InitAsync ==
    /\ StartWith("plain", Calls, NoConnection, AsyncSettings)
    /\ NoFlask
    /\ NoSecrets
    /\ NoSync

NextAsync ==
    \E c \in Calls :
        \/ Call(c)
        \/ PublishOk(c)
        \/ OnNetworkError(c)
        \/ Tick(c)
        \/ Wake(c)

SpecAsync == InitAsync /\ [][NextAsync]_vars

(* A Flask app is configured and the extensions are initialised on it *)

\* The entries app.config is made of
AppEntries ==
    { <<ALDERA_ \o SMS_BACKEND, PyStr("aws")>>,
      <<ALDERA_ \o AWS_REGION, PyStr("us-east-1")>>,
      <<ALDERA_ \o dict_items, PyDict({<<SMS_BACKEND, PyStr("aws")>>})>>,
      <<ALDERA_ \o dict_items, PyStr("")>>,
      <<ALDERA_ \o dict_items, PyStr("aws")>>,
      <<ALDERA_ \o dict_items, PyNone>>,
      <<ALDERA_ \o ALDERA_ \o dict_items, PyDict({})>>,
      <<DEBUG, PyBool(TRUE)>>,
      <<SECRET_KEY, PyStr("dev")>> }

\* app.config: no entry, one entry, or two entries of different keys
AppConfigs ==
    {<<>>} \cup {<<e>> : e \in AppEntries}
           \cup {x \in AppEntries \X AppEntries : x[1][1] # x[2][1]}

\* What the registry holds before init_app
Registries ==
    { {}, { <<DEBUG, PyBool(TRUE)>>, <<AWS_REGION, PyStr("eu-west-1")>> } }

InitFlask ==
    /\ \E settings \in Registries :
          StartWith("plain", {}, NoConnection, settings)
    /\ app_config \in AppConfigs
    /\ extensions = {}
    /\ bound = [name \in Keys(Extensions) |-> NotCalled]
    /\ NoSecrets
    /\ NoSync

NextFlask == \E name \in Keys(Extensions) : init_app(name)

SpecFlask == InitFlask /\ [][NextFlask]_vars

(* The secrets are asked for *)

\* os.environ
Environs ==
    { source \cup user \cup host :
        source \in { {}, {<<"ALDERA_SECRETS_SOURCE", PyStr("aws")>>},
                     {<<"ALDERA_SECRETS_SOURCE", PyStr("systemd")>>} },
        user \in { {}, {<<"DB_USER", PyStr("envuser")>>} },
        host \in { {}, {<<"DB_HOST", PyStr("localhost")>>} } }

\* AWS Secrets Manager: out of reach, or holding these secrets
Vaults ==
    { PyNone,
      PyDict({}),
      PyDict({<<"DB_USER", PyStr("admin")>>}),
      PyDict({<<"DB_USER", PyStr("admin")>>,
              <<"DB_PASSWORD", PyStr("hunter2")>>}) }

InitSecrets ==
    /\ StartWith("plain", {}, NoConnection, {})
    /\ NoFlask
    /\ NoSync
    /\ \E env \in Environs, store \in Vaults : Imported(env, store)

NextSecrets == \E secret_name \in SecretNames : get_secret(secret_name)

SpecSecrets == InitSecrets /\ [][NextSecrets]_vars

(* The synchronous backend sends, under every setting of DEBUG *)

DebugSettings ==
    { PyBool(FALSE), PyBool(TRUE), PyInt("0"), PyInt("1"), PyStr(""),
      PyStr("on"), PyNone }

InitSync ==
    /\ \E settings \in {{}} \cup {{<<DEBUG, v>>} : v \in DebugSettings} :
          StartWith("plain", {}, NoConnection, settings)
    /\ NoFlask
    /\ NoSecrets
    /\ NoSync

NextSync == \E c \in Calls : send_message(c)

SpecSync == InitSync /\ [][NextSync]_vars

----------------------------------------------------------------------------
(* Properties *)

Publishing == {c \in Calls : pc[c] = "publish"}

Finished(c) == pc[c] \in {"returned", "raised"}

\* C1: at every moment at most 2 coroutines of one backend are executing a
\* transport publish call, however many send_message calls run
\* concurrently and however they interleave.
C1_AtMostTwoPublishing == Cardinality(Publishing) <= 2

\* Two publishes are in flight while another coroutine is kept waiting.
C1_Witness ==
    /\ Cardinality(Publishing) = 2
    /\ \E c \in Calls : pc[c] = "waiting"

\* C2: every call that acquired a slot releases it exactly once on every
\* exit path and no call releases a slot it did not acquire: the free
\* slots plus the calls holding one are always 2, and when all calls are
\* over the free slots are 2 again.
C2_SlotsConserved ==
    /\ sem_value[SharedBackend] \in 0..2
    /\ sem_value[SharedBackend] + Cardinality(Holders) = 2
    /\ (\A c \in Calls : Finished(c)) => sem_value[SharedBackend] = 2

\* All calls are over, by success, by a fatal error and by exhaustion.
C2_Witness ==
    /\ \A c \in Calls : Finished(c)
    /\ \E c \in Calls : pc[c] = "returned"
    /\ \E c \in Calls : pc[c] = "raised" /\ klass[c] = "Fatal"
    /\ \E c \in Calls : pc[c] = "raised" /\ klass[c] # "Fatal"
    /\ sem_value[SharedBackend] = 2

\* The backoff delays of the three retries, in milliseconds
Schedule == <<500, 1000, 2000>>

Retried(c) == klass[c] \in {"RetriableRemote", "RetriableNetwork"}

\* C3: when transport attempt n in 1..3 fails with a retriable error the
\* call suspends for 0.5 s * 2^(n-1) (500, 1000, 2000 ms) and attempt n+1
\* starts only when that delay has elapsed; a call that succeeds on its
\* fourth attempt has slept 500, 1000 and 2000 ms, in that order.
C3_BackoffSchedule ==
    /\ [](\A c \in Calls :
            /\ pc[c] = "sleep" =>
                 /\ calls[c] \in 1..3
                 /\ Retried(c)
                 /\ delays[c] = SubSeq(Schedule, 1, calls[c])
                 /\ timer[c] \in 0..Schedule[calls[c]]
            /\ pc[c] = "publish" =>
                 /\ delays[c] = SubSeq(Schedule, 1, calls[c] - 1)
                 /\ timer[c] = 0
            /\ (pc[c] = "returned" /\ calls[c] = 4) => delays[c] = Schedule)
    /\ [][\A c \in Calls :
            /\ (pc[c] = "publish" /\ pc'[c] \notin {"publish", "returned"}
                /\ Retried(c)' /\ calls[c] <= 3) =>
                 /\ pc'[c] = "sleep"
                 /\ timer'[c] = Schedule[calls[c]]
            /\ (pc[c] = "sleep" /\ pc'[c] = "sleep") => timer'[c] <= timer[c]
            /\ (pc[c] = "sleep" /\ calls'[c] # calls[c]) =>
                 /\ timer[c] = 0
                 /\ calls'[c] = calls[c] + 1
                 /\ pc'[c] = "publish"]_vars

\* Three throttled attempts, three backoffs, success on the fourth attempt.
C3_Witness ==
    /\ pc[1] = "returned"
    /\ calls[1] = 4
    /\ delays[1] = <<500, 1000, 2000>>
    /\ klass[1] = "RetriableRemote"

\* C4: a call whose transport fails with a retriable error on every
\* attempt makes exactly 4 transport calls, does not back off after the
\* fourth failure, fails with retries exhausted and never attempts again.
C4_ExhaustionStops ==
    /\ [](\A c \in Calls :
            /\ (pc[c] = "raised" /\ Retried(c)) =>
                 /\ calls[c] = 4
                 /\ attempt[c] = 4
                 /\ delays[c] = Schedule
                 /\ timer[c] = 0
                 /\ result[c].kind = "raise"
            /\ (calls[c] = 4 /\ Retried(c) /\ thrown[c] = last_exception[c]
                /\ attempt[c] = 4) => pc[c] = "raised"
            /\ pc[c] = "sleep" => calls[c] <= 3)
    /\ [][\A c \in Calls :
            pc[c] = "raised" =>
                /\ pc'[c] = "raised"
                /\ calls'[c] = calls[c]
                /\ delays'[c] = delays[c]]_vars

\* Four network failures in a row: the call has failed after 4 attempts.
C4_Witness ==
    /\ pc[1] = "raised"
    /\ klass[1] = "RetriableNetwork"
    /\ calls[1] = 4
    /\ Len(delays[1]) = 3

\* C5: a transport attempt that fails with an error classified Fatal, the
\* first attempt or a later one, ends the call at once with a failure: no
\* backoff and no further transport call follow; only the retriable
\* classes are retried, and an unclassified error on the first attempt
\* ends the call after exactly one attempt.
C5_FatalStops ==
    /\ [](\A c \in Calls :
            /\ klass[c] = "Fatal" =>
                 /\ pc[c] = "raised"
                 /\ result[c].kind = "raise"
                 /\ timer[c] = 0
                 /\ Len(delays[c]) = calls[c] - 1
            /\ pc[c] = "sleep" => Retried(c)
            /\ calls[c] >= 2 => Len(delays[c]) >= calls[c] - 1
            /\ (pc[c] = "raised" /\ attempt[c] = 0) =>
                 /\ calls[c] = 1
                 /\ delays[c] = <<>>)
    /\ [][\A c \in Calls :
            (klass'[c] = "Fatal" /\ klass[c] # "Fatal") =>
                /\ pc[c] = "publish"
                /\ pc'[c] = "raised"
                /\ calls'[c] = calls[c]
                /\ delays'[c] = delays[c]]_vars

\* A ClientError with a code outside the table ends the call on its third
\* attempt, after two retried failures.
C5_Witness ==
    /\ pc[1] = "raised"
    /\ klass[1] = "Fatal"
    /\ thrown[1] = ClientError(ErrorResponse(InvalidParameter))
    /\ calls[1] = 3
    /\ Len(delays[1]) = 2

\* C6: a call whose transport succeeds on the first attempt returns the
\* identifier the transport returned, after exactly one transport call, no
\* backoff, and with the slot released; after a successful attempt the
\* call makes no further attempt.
C6_SuccessReturnsId ==
    /\ [](\A c \in Calls :
            pc[c] = "returned" =>
                /\ result[c].kind = "return"
                /\ \/ <<"MessageId", result[c].value>> \in reply[c]
                   \/ /\ \A p \in reply[c] : p[1] # "MessageId"
                      /\ result[c].value = "None"
                /\ pc[c] \notin {"publish", "sleep"}
                /\ c \notin Holders
                /\ sem_value[SharedBackend] = 2
                /\ attempt[c] = 0 =>
                     /\ calls[c] = 1
                     /\ delays[c] = <<>>)
    /\ [][\A c \in Calls :
            pc[c] = "returned" =>
                /\ pc'[c] = "returned"
                /\ calls'[c] = calls[c]
                /\ result'[c] = result[c]]_vars

\* The first attempt succeeded and the call returned the second identifier.
C6_Witness ==
    /\ pc[1] = "returned"
    /\ calls[1] = 1
    /\ reply[1] = {<<"MessageId", "m-2">>}
    /\ result[1].value = "m-2"
    /\ sem_value[SharedBackend] = 2

\* C7: in every state of every call the attempt counter is between 0 and
\* max_retries + 1 = 4 and the call has made at most 4 transport calls,
\* whatever mix of retriable-remote and retriable-network failures the
\* transport produces.
C7_AttemptBudget ==
    \A c \in Calls :
        /\ attempt[c] \in 0..4
        /\ calls[c] \in 0..4
        /\ attempt[c] <= calls[c]

\* The budget is used up: a fourth failure, of the remote class.
C7_Witness ==
    /\ attempt[1] = 4
    /\ calls[1] = 4
    /\ klass[1] = "RetriableRemote"

----------------------------------------------------------------------------
(* The classification table, stated on the exception itself *)

TableTokens ==
    { <<"t","h","r","o","t","t","l","i","n","g">>,
      <<"r","e","q","u","e","s","t","l","i","m","i","t">>,
      <<"i","n","t","e","r","n","a","l">>,
      <<"s","e","r","v","i","c","e">>,
      <<"u","n","a","v","a","i","l","a","b","l","e">> }

\* ch is the lower-case letter low, in either case
Folds(ch, low) ==
    \/ ch = low
    \/ \E i \in 1..26 : LowerCase[i] = low /\ UpperCase[i] = ch

HasTableToken(code) ==
    \E token \in TableTokens :
        \E k \in 0..(Len(code) - Len(token)) :
            \A j \in 1..Len(token) : Folds(code[k + j], token[j])

\* The error codes a ClientError carries: none when Error or Code is missing
CodesOf(err) ==
    {f[2] : f \in {g \in UNION {e[2] : e \in {x \in err.response :
                                               x[1] = "Error"}} :
                   g[1] = "Code"}}

TableClass(err) ==
    IF err.type = "ClientError" /\ \E code \in CodesOf(err) :
                                       HasTableToken(code)
    THEN "RetriableRemote"
    ELSE IF err.type \in {"EndpointConnectionError", "TimeoutError"}
    THEN "RetriableNetwork"
    ELSE "Fatal"

\* C8: error classification is total and follows the table: a failed
\* transport call is retriable-remote iff it is a ClientError whose code,
\* lower-cased, contains one of the five tokens; retriable-network iff it
\* is an EndpointConnectionError or a timeout; Fatal in every other case,
\* a ClientError without a code or with an empty code included.
C8_ClassificationTable ==
    \A c \in Calls :
        /\ thrown[c] # NoException => klass[c] = TableClass(thrown[c])
        /\ thrown[c] = NoException => klass[c] = "None"

\* A code that holds a token only across its parts and in mixed case is
\* retried, and a ClientError without a code was fatal in another run.
C8_Witness ==
    /\ thrown[1] = ClientError(ErrorResponse(
                       <<"U","n","A","v","a","i","l","a","b","l","e">>))
    /\ klass[1] = "RetriableRemote"
    /\ pc[1] = "sleep"

C10_FailureWrapsLastError ==
    \A c \in Calls :
        /\ Finished(c) => result[c].kind \in {"return", "raise"}
        /\ ~Finished(c) => result[c].kind = "pending"
        /\ (Finished(c) /\ result[c].kind # "return") =>
             /\ pc[c] = "raised"
             /\ result[c].cause = thrown[c]
             /\ result[c].cause # NoException
        /\ (pc[c] \in {"sleep", "raised"}) => last_exception[c] = thrown[c]

\* After two retried failures the third attempt failed with a fatal
\* ClientError, which is the cause of the failure.
C10_Witness ==
    /\ pc[1] = "raised"
    /\ calls[1] = 3
    /\ result[1].cause = ClientError(ErrorResponse(InvalidParameter))
    /\ result[1].kind = "raise"

\* The queue of the shared backend's semaphore
Waiters == sem_waiters[SharedBackend]

\* C11: a cancellation delivered to a call suspended in backoff or waiting
\* for a slot ends that call without any further transport call by it and
\* without leaking a slot: the free slots are what they would be had the
\* call never been issued, and the other waiting calls can still acquire.
C11_CancelLeaksNothing ==
    /\ [](/\ sem_value[SharedBackend] + Cardinality(Holders) = 2
          /\ \A i \in 1..Len(Waiters) : pc[Waiters[i]] = "waiting"
          /\ \A c \in Calls :
                /\ pc[c] = "cancelled" => result[c].exc = "CancelledError"
                /\ pc[c] = "waiting" =>
                     \E i \in 1..Len(Waiters) : Waiters[i] = c)
    /\ [][\A c \in Calls :
            /\ (pc[c] = "sleep" /\ pc'[c] = "cancelled") =>
                 /\ sem_value'[SharedBackend] = sem_value[SharedBackend] + 1
                 /\ calls' = calls
                 /\ Waiters' = Waiters
            /\ (pc[c] = "waiting" /\ pc'[c] = "cancelled") =>
                 /\ sem_value' = sem_value
                 /\ calls' = calls
                 /\ \A i \in 1..Len(Waiters') : Waiters'[i] # c
                 /\ Len(Waiters') = Len(Waiters) - 1
            /\ pc[c] = "cancelled" =>
                 /\ pc'[c] = "cancelled"
                 /\ calls'[c] = calls[c]
                 /\ result'[c] = result[c]]_vars

\* One call was cancelled in its backoff and one while it waited for a
\* slot; a third holds a slot and the other slot is free again.
C11_Witness ==
    \E a, b, d \in Calls :
        /\ pc[a] = "cancelled" /\ calls[a] >= 1 /\ Len(delays[a]) = calls[a]
        /\ pc[b] = "cancelled" /\ calls[b] = 0
        /\ pc[d] = "publish"
        /\ sem_value[SharedBackend] = 1

\* C12: when every transport call and every backoff delay completes and
\* the scheduler is fair, each of the concurrent calls ends with exactly
\* one outcome, a return or a failure: no call waits for a slot for ever
\* and no call has two outcomes or none.
C12_EveryCallEnds ==
    /\ \A c \in Calls : <>Finished(c)
    /\ [](\A c \in Calls :
            Finished(c) <=> result[c].kind \in {"return", "raise"})
    /\ [][\A c \in Calls :
            Finished(c) => (pc'[c] = pc[c] /\ result'[c] = result[c])]_vars

\* All calls are over, and all three ways of ending have occurred.
C12_Witness ==
    /\ \A c \in Calls : Finished(c) /\ result[c].kind # "pending"
    /\ \E c \in Calls : result[c].kind = "return"
    /\ \E c \in Calls : result[c].kind = "raise" /\ attempt[c] = 0
    /\ \E c \in Calls : result[c].kind = "raise" /\ attempt[c] = 4

\* The semaphores that exist
Gates == DOMAIN sem_value

\* C13: the gate is process-wide: it is created once, and all concurrent
\* sends, those of send_async_message without a connection included, go
\* through the same gate of capacity 2, so at most 2 of them publish.
C13_ProcessWideGate ==
    /\ Cardinality(Gates) <= 1
    /\ \A a, b \in Calls :
          (sms[a] # NoConnection /\ sms[b] # NoConnection) => sms[a] = sms[b]
    /\ Cardinality(Publishing) <= SemaphoreCapacity

\* The coroutines that are in asyncio.sleep
Sleeping == {c \in Calls : pc[c] = "sleep"}

\* C16: a call holds its slot from the acquisition to its end, the backoff
\* sleeps included: entering and leaving a backoff moves no slot, the calls
\* in a transport call or in backoff are at most 2, and while 2 calls back
\* off no slot is free and no third call starts a transport call.
C16_SlotHeldThroughBackoff ==
    /\ [](/\ Cardinality(Publishing \cup Sleeping) <= 2
          /\ Cardinality(Sleeping) = 2 =>
               /\ Publishing = {}
               /\ sem_value[SharedBackend] = 0)
    /\ [][\A c \in Calls :
            /\ (pc[c] = "publish" /\ pc'[c] = "sleep") => sem_value' = sem_value
            /\ (pc[c] = "sleep" /\ pc'[c] = "publish") => sem_value' = sem_value
            /\ (pc[c] = "sleep" /\ pc'[c] = "sleep") =>
                 sem_value'[SharedBackend] <= 1
            /\ (pc[c] # "publish" /\ pc'[c] = "publish") =>
                 Cardinality((Publishing \cup Sleeping) \ {c}) <= 1
            /\ (pc[c] \in {"start", "waiting"} /\ pc'[c] = "publish") =>
                 /\ Cardinality(Sleeping) <= 1
                 /\ sem_value'[SharedBackend] = sem_value[SharedBackend] - 1]_vars

C16_Witness ==
    \E a, b, d \in Calls :
        /\ a # b
        /\ pc[a] = "sleep" /\ timer[a] > 0
        /\ pc[b] = "sleep" /\ calls[b] = 2
        /\ pc[d] = "waiting" /\ calls[d] = 0
        /\ sem_value[SharedBackend] = 0

\* The key 'X' of the app key 'ALDERA_X'
Stripped(key) == SubSeq(key, Len(ALDERA_) + 1, Len(key))

\* The registry keys that app.config names as 'ALDERA_X'
Named ==
    {Stripped(app_config[i][1]) :
        i \in {j \in 1..Len(app_config) :
                  StartsWith(app_config[j][1], ALDERA_)}}

\* C14: init_app binds the app's configuration to the registry: once it
\* has been called, aldera.config.get('X') is app.config['ALDERA_X'] for
\* every key 'ALDERA_X' of the app and the extension is registered in
\* app.extensions; the registry keys the app does not name keep their value.
C14_InitAppBinds ==
    /\ [](\A name \in Keys(Extensions) :
            bound[name] # NotCalled =>
                /\ bound[name] = Returned
                /\ \A i \in 1..Len(app_config) :
                      StartsWith(app_config[i][1], ALDERA_) =>
                          get_config(Stripped(app_config[i][1]), PyNone)
                              = app_config[i][2]
                /\ DictGet(extensions, name, "None")
                       = DictGet(Extensions, name, "None"))
    /\ [][\A key \in Keys(config) \ Named :
            get_config(key, PyNone)' = get_config(key, PyNone)]_vars

\* The value the secret has in AWS Secrets Manager, else in the environment
SecretOrEnviron(name) ==
    IF vault.type = "dict" /\ name \in Keys(vault.items)
    THEN DictGet(vault.items, name, PyNone)
    ELSE DictGet(environ, name, PyNone)

\* C15: get_secret(name) returns the secret of that name; the secrets are
\* loaded on the first use and kept, and the environment variable of that
\* name is the answer when AWS Secrets Manager has no such secret or is
\* out of reach.
C15_SecretOrEnviron ==
    /\ [](\A name \in SecretNames :
            asked[name] # Unasked =>
                /\ asked[name] = Answered(SecretOrEnviron(name))
                /\ DictGet(secrets, "_settings", PyNone) # PyNone)
    /\ [][DictGet(secrets, "_settings", PyNone) # PyNone =>
            secrets' = secrets]_vars

\* The values Python takes for false
FalsyValues == {PyNone, PyBool(FALSE), PyInt("0"), PyStr(""), PyDict({})}

\* DEBUG is not in the registry, or it is falsy
DebugOff == \A p \in config : p[1] = DEBUG => p[2] \in FalsyValues

\* C17: the synchronous send_message makes one publish call and no retry;
\* it returns True when publish succeeds; on a ClientError it returns False
\* when DEBUG is unset or falsy and raises that ClientError again when
\* DEBUG is truthy; any other exception of publish propagates.
C17_SyncSendOnce ==
    \A c \in Calls :
        /\ published[c] <= 1
        /\ sent[c] = Unsent <=> published[c] = 0
        /\ sent[c] # Unsent =>
             CASE sent[c].fault = NoException ->
                      sent[c] = SyncReturn(TRUE, NoException)
               [] sent[c].fault.type = "ClientError" ->
                      IF DebugOff
                      THEN sent[c] = SyncReturn(FALSE, sent[c].fault)
                      ELSE sent[c] = SyncRaise(sent[c].fault, sent[c].fault)
               [] OTHER -> sent[c] = SyncRaise(sent[c].fault, sent[c].fault)

C17_Witness ==
    /\ <<DEBUG, PyInt("1")>> \in config
    /\ \E a, b, d \in Calls :
          /\ sent[a].value = PyBool(TRUE)
          /\ sent[b].kind = "raise" /\ sent[b].exc.type = "ClientError"
          /\ sent[d].kind = "raise" /\ sent[d].exc.type = "ValueError"
          /\ published[a] = 1 /\ published[b] = 1 /\ published[d] = 1

====
